---- MODULE Spec2Model ----
(***************************************************************************)
(* The authentication front end of the React Router + Payload template:    *)
(* the login, register and home routes (loader and action of each) and the *)
(* four backend helpers of payload-helper.ts.                              *)
(*                                                                         *)
(* A handler runs from one await to the next in one step: a "start" action *)
(* runs the handler up to its first backend call, a "resume" action        *)
(* delivers the backend's answer (a JSON body, or an exception of fetch()  *)
(* or of resp.json()) and runs the handler to its next backend call or to  *)
(* its return.  Spec handles one request at a time and keeps the browser's *)
(* cookies from one request to the next; SpecConcurrent keeps a second     *)
(* request in flight and turns from one to the other at the awaits;        *)
(* SpecSession runs the handlers against a backend that keeps its sessions.*)
(*                                                                         *)
(* Strings the code inspects character by character (form fields) are      *)
(* sequences of one-character strings.  A JSON object is a record whose    *)
(* DOMAIN is the set of the fields it carries.                             *)
(***************************************************************************)
EXTENDS Integers, Sequences, FiniteSets, TLC

VARIABLES
    pc,            \* "idle", "done", or the backend call the handler awaits
    handler,       \* the loader or action handling the current request
    request,       \* [cookie, form]: the inbound Cookie header and form data
    backendUser,   \* the user the backend resolves the inbound cookie to
    parsed,        \* result.data / parsed.data of the schema, once validated
    user,          \* the loader's local `user`
    registerResp,  \* the register action's local `registerResp`
    loginResp,     \* the login/register action's local `loginResp`
    logoutResp,    \* the home action's local `logoutResp`
    calls,         \* the backend requests issued for this request, in order
    result,        \* what the handler returned (or threw)
    jar,           \* the cookies the browser holds for the site
    issued,        \* the token the backend issued with the cookie in `jar`
    other,         \* a second request in flight, parked at one of its awaits
    session        \* "open" once the browser keeps the cookie of an accepted
                   \* login, "closed" once the backend has then accepted a
                   \* logout, "none" otherwise

vars == <<pc, handler, request, backendUser, parsed, user, registerResp,
          loginResp, logoutResp, calls, result, jar, issued, other,
          session>>

----------------------------------------------------------------------------
(* Bounds of the model *)

\* longest `errors` array a backend response carries
MaxErrors == 2

\* backend expiry instants are multiples of 500 ms up to MaxExpiry * 500
MaxExpiry == 3

----------------------------------------------------------------------------
(* JavaScript values *)

Undefined == "<undefined>"
Null == "<null>"
Unset == "<unset>"

\* {} (and a JSON null, which every `x?.f` of the code reads like {})
Empty == [f \in {} |-> Undefined]

Has(obj, field) == field \in DOMAIN obj

\* obj?.field
Get(obj, field) == IF Has(obj, field) THEN obj[field] ELSE Undefined

\* the truthiness of a value that is a string, null or undefined
Truthy(v) == v \notin {Undefined, Null, Unset, ""}

----------------------------------------------------------------------------
(* Characters and String.prototype.trim *)

Lower == {"a", "b", "c", "d", "e", "f", "g", "h", "i", "j", "k", "l", "m",
          "n", "o", "p", "q", "r", "s", "t", "u", "v", "w", "x", "y", "z"}
Upper == {"A", "B", "C", "D", "E", "F", "G", "H", "I", "J", "K", "L", "M",
          "N", "O", "P", "Q", "R", "S", "T", "U", "V", "W", "X", "Y", "Z"}
Letters == Lower \cup Upper
Digits == {"0", "1", "2", "3", "4", "5", "6", "7", "8", "9"}
Alnum == Letters \cup Digits
Whitespace == {" "}

RECURSIVE TrimStart(_)
TrimStart(s) ==
    IF s # <<>> /\ Head(s) \in Whitespace THEN TrimStart(Tail(s)) ELSE s

RECURSIVE TrimEnd(_)
TrimEnd(s) ==
    IF s # <<>> /\ s[Len(s)] \in Whitespace
    THEN TrimEnd(SubSeq(s, 1, Len(s) - 1))
    ELSE s

Trim(s) == TrimEnd(TrimStart(s))

----------------------------------------------------------------------------
\* zod: z.string().email(), z.string().min(n), .trim()
\*
\* z.string().email() tests
\*   /^(?!\.)(?!.*\.\.)([A-Z0-9_'+\-\.]*)[A-Z0-9_+-]@([A-Z0-9][A-Z0-9\-]*\.)+[A-Z]{2,}$/i
\* and a ZodString runs its checks in the order they were chained, so
\* .email().trim() tests the untrimmed input and .min(1).trim() measures the
\* untrimmed input; trim then rewrites the value handed on.

LocalChars == Alnum \cup {"_", "'", "+", "-", "."}
LocalLast == Alnum \cup {"_", "+", "-"}

\* ([A-Z0-9][A-Z0-9\-]*\.)+[A-Z]{2,}
DomainMatches(d) ==
    \E p \in 2..Len(d) :
        /\ d[p] = "."
        /\ Len(d) - p >= 2
        /\ \A i \in (p + 1)..Len(d) : d[i] \in Letters
        /\ \A i \in 1..(p - 1) :
              /\ d[i] \in Alnum \cup {"-", "."}
              /\ (i = 1 \/ d[i - 1] = ".") => d[i] \in Alnum

IsEmail(s) ==
    /\ s # <<>>
    /\ s[1] # "."
    /\ \A i \in 1..(Len(s) - 1) : ~(s[i] = "." /\ s[i + 1] = ".")
    /\ \E k \in 2..Len(s) :
          /\ s[k] = "@"
          /\ \A i \in 1..(k - 2) : s[i] \in LocalChars
          /\ s[k - 1] \in LocalLast
          /\ DomainMatches(SubSeq(s, k + 1, Len(s)))

MinPasswordLength == 6
MinNameLength == 1

\* email: z.string().email().trim()
EmailField(form) == Has(form, "email") /\ IsEmail(form.email)

\* as PasswordField, one character too lenient
PasswordField_OffByOne(form) ==
    Has(form, "password") /\ Len(form.password) >= MinPasswordLength - 1

\* password: z.string().min(6)
PasswordField(form) ==
    Has(form, "password") /\ Len(form.password) >= MinPasswordLength

\* firstName / lastName: z.string().min(1).trim()
NameField(form, field) ==
    Has(form, field) /\ Len(form[field]) >= MinNameLength

\* LoginSchema.safeParse(Object.fromEntries(formData))
LoginSchema(form) ==
    IF EmailField(form) /\ PasswordField(form)
    THEN [success |-> TRUE,
          data |-> [email |-> Trim(form.email), password |-> form.password]]
    ELSE [success |-> FALSE, data |-> Empty]

\* RegisterSchema.safeParse(Object.fromEntries(formData))
RegisterSchema(form) ==
    IF /\ EmailField(form)
       /\ PasswordField(form)
       /\ NameField(form, "firstName")
       /\ NameField(form, "lastName")
    THEN [success |-> TRUE,
          data |-> [email |-> Trim(form.email),
                    password |-> form.password,
                    firstName |-> Trim(form.firstName),
                    lastName |-> Trim(form.lastName)]]
    ELSE [success |-> FALSE, data |-> Empty]

----------------------------------------------------------------------------
(* Dates, cookies and handler results *)

MsPerSecond == 1000

\* new Date(ms).toUTCString(): an RFC-1123 date, which counts whole seconds
ToUTCString(ms) == [valid |-> TRUE, sec |-> ms \div MsPerSecond]

\* new Date(undefined).toUTCString() is the text "Invalid Date"
InvalidDate == [valid |-> FALSE, sec |-> 0]

\* "Thu, 01 Jan 1970 00:00:00 GMT"
EpochDate == [valid |-> TRUE, sec |-> 0]

\* `${v}` of a string or undefined
Template(v) == IF v = Undefined THEN "undefined" ELSE v

CookieName == "payload-token"

\* as SessionCookie, with `expires` read as seconds where Date wants ms
SessionCookie_ExpiresInSeconds(resp) ==
    [name |-> CookieName,
     value |-> Template(Get(resp, "token")),
     path |-> "/",
     expires |-> IF Has(resp, "expires")
                 THEN [valid |-> TRUE, sec |-> resp.expires]
                 ELSE InvalidDate]

\* `payload-token=${loginResp?.token}; path=/;
\*  expires=${new Date(loginResp?.expires).toUTCString()}`
SessionCookie(resp) ==
    [name |-> CookieName,
     value |-> Template(Get(resp, "token")),
     path |-> "/",
     expires |-> IF Has(resp, "expires")
                 THEN ToUTCString(resp.expires)
                 ELSE InvalidDate]

\* "payload-token=; path=/; expires=Thu, 01 Jan 1970 00:00:00 GMT"
ClearCookie ==
    [name |-> CookieName, value |-> "", path |-> "/", expires |-> EpochDate]

NoResult ==
    [kind |-> "none", location |-> "", setCookie |-> <<>>, data |-> Empty]

\* redirect(location, { headers: { "Set-Cookie": ... } })
Redirect(location, cookies) ==
    [kind |-> "redirect", location |-> location, setCookie |-> cookies,
     data |-> Empty]

\* return { ... }
Data(d) == [kind |-> "data", location |-> "", setCookie |-> <<>>, data |-> d]

\* the function ends without a return statement
ReturnsUndefined ==
    [kind |-> "undefined", location |-> "", setCookie |-> <<>>,
     data |-> Empty]

\* an exception leaves the handler
Throws(error) ==
    [kind |-> "throw", location |-> "", setCookie |-> <<>>, data |-> error]

\* Error(message): the message is "" when the argument is undefined
Error(message) ==
    [isError |-> TRUE,
     message |-> IF message = Undefined THEN "" ELSE message]

\* errors[0]?.message
FirstMessage(errors) ==
    IF Len(errors) = 0 THEN Undefined ELSE Get(errors[1], "message")

----------------------------------------------------------------------------
(* payload-helper.ts: the request each helper sends *)

\* A Cookie header: the cookie pairs it lists; "" lists none
CookieHeader(pairs) == [present |-> TRUE, pairs |-> pairs]

\* request.headers.get("Cookie") is null; a fetch sent without the header
NoCookieHeader == [present |-> FALSE, pairs |-> <<>>]

\* request.headers.get("Cookie") || ""
ForwardedCookie(req) ==
    IF req.cookie.present /\ req.cookie.pairs # <<>>
    THEN req.cookie
    ELSE CookieHeader(<<>>)

\* as checkUser, without the Cookie header
checkUser_NoCookie(req) ==
    [op |-> "checkUser", cookie |-> NoCookieHeader, body |-> Empty]

checkUser(req) ==
    [op |-> "checkUser", cookie |-> ForwardedCookie(req), body |-> Empty]

\* as loginUser, forwarding the inbound cookies like the other helpers
loginUser_ForwardsCookie(req, data) ==
    [op |-> "loginUser", cookie |-> ForwardedCookie(req),
     body |-> [email |-> data.email, password |-> data.password]]

loginUser(req, data) ==
    [op |-> "loginUser", cookie |-> NoCookieHeader,
     body |-> [email |-> data.email, password |-> data.password]]

logoutUser(req) ==
    [op |-> "logoutUser", cookie |-> ForwardedCookie(req), body |-> Empty]

createUser(email, password, firstName, lastName) ==
    [op |-> "createUser", cookie |-> NoCookieHeader,
     body |-> [email |-> email, password |-> password,
               firstName |-> firstName, lastName |-> lastName]]

\* the home loader's own fetch of /api/users
listUsers(req) ==
    [op |-> "listUsers", cookie |-> ForwardedCookie(req), body |-> Empty]

\* checkUser's `return user?.user`
UserOf(body) == Get(body, "user")

Ops(log) == {log[i].op : i \in 1..Len(log)}

----------------------------------------------------------------------------
(* What the backend may answer *)

NoResp == [kind |-> "unset", error |-> Empty, body |-> Empty]

\* resp.json() gave `body`
Returned(body) == [kind |-> "json", error |-> Empty, body |-> body]

\* fetch() rejected (a TypeError) or resp.json() rejected (a SyntaxError)
Failed(message) == [kind |-> "throw", error |-> Error(message), body |-> Empty]

TransportFailures ==
    {Failed("fetch failed"), Failed("Unexpected token < in JSON at position 0")}

Messages ==
    {"The email or password provided is incorrect.",
     "A user with the given email is already registered."}

RECURSIVE SeqsUpTo(_, _)
SeqsUpTo(S, n) ==
    IF n = 0
    THEN {<<>>}
    ELSE LET shorter == SeqsUpTo(S, n - 1)
         IN  shorter \cup {Append(q, x) : q \in shorter, x \in S}

ErrorsArrays == SeqsUpTo({[message |-> m] : m \in Messages}, MaxErrors)

Users == {"u1"}
Tokens == {"t1", "t2"}
ExpiresInstants == {k * (MsPerSecond \div 2) : k \in 0..MaxExpiry}

ErrorsPart == {Empty} \cup {[errors |-> e] : e \in ErrorsArrays}
UserPart == {Empty, [user |-> Null]} \cup {[user |-> u] : u \in Users}
TokenPart == {Empty} \cup {[token |-> t] : t \in Tokens}
ExpiresPart == {Empty} \cup {[expires |-> x] : x \in ExpiresInstants}

\* POST /api/users/login: { user, token, expires } or { errors: [...] },
\* or any object short of these
LoginBodies ==
    {e @@ u @@ t @@ x :
        e \in ErrorsPart, u \in UserPart, t \in TokenPart, x \in ExpiresPart}

\* POST /api/users: the created record or { errors: [...] }
CreateBodies ==
    {e @@ d : e \in ErrorsPart, d \in {Empty} \cup {[doc |-> u] : u \in Users}}

\* POST /api/users/logout: a message or { errors: [...] }
LogoutBodies ==
    {e @@ m : e \in ErrorsPart, m \in {Empty, [message |-> "Logged out."]}}

\* GET /api/users/me: { user } for the user the backend resolves the cookie to
CheckBodies(resolved) == {Empty, [user |-> resolved]}

\* GET /api/users: { docs: [...] }
ListBodies == {Empty, [docs |-> <<>>]} \cup {[docs |-> <<u>>] : u \in Users}

\* how a call may end: the fetch or its json() rejects, or a body arrives
Outcomes(inputs, bodies) ==
    inputs.failures \cup {Returned(b) : b \in bodies}

----------------------------------------------------------------------------
(* What a browser may send *)

CookieHeaders ==
    {NoCookieHeader}
        \cup {CookieHeader(<<[name |-> CookieName, value |-> t]>>) : t \in Tokens}

\* the Cookie header a browser sends for the cookies it holds
BrowserCookie(held) ==
    IF held = <<>> THEN NoCookieHeader ELSE CookieHeader(held)

\* a request carries the browser's cookies, or whatever a client puts there
Inbound(cookies) == cookies \cup {BrowserCookie(jar)}

\* the browser's clock stands at the epoch second: the date of a logout's
\* directive is past, and so is any date at or before it
Expired(date) == date.valid /\ date.sec <= EpochDate.sec

\* the browser applies a Set-Cookie directive: a past date removes the
\* cookie, a date it cannot read ("Invalid Date") is ignored and the cookie
\* kept for the session
StoreCookie(held, directive) ==
    IF Expired(directive.expires)
    THEN <<>>
    ELSE <<[name |-> directive.name, value |-> directive.value]>>

\* the backend resolves no user for a request that carries no cookie
Resolvable(cookie) ==
    IF cookie.present /\ cookie.pairs # <<>> THEN {Null} \cup Users ELSE {Null}

\* the Cookie headers a backend call may carry
ForwardedHeaders ==
    Inbound(CookieHeaders) \cup {NoCookieHeader, CookieHeader(<<>>)}

\* the users the backend may resolve the cookies of a call to
Resolved(inputs, call) == inputs.resolve[call.cookie]

Emails ==
    {<<>>,
     <<"a", "@", "b", ".", "c", "c">>,
     <<" ", "a", "@", "b", ".", "c", "c">>,
     <<"a", "@", "b", ".", "c">>,
     <<"a", "b", ".", "c", "c">>}

Passwords ==
    {<<>>,
     <<"1", "2", "3", "4", "5">>,
     <<"1", "2", "3", "4", "5", "6">>,
     <<"s", "e", "c", "r", "e", "t", "1">>}

FirstNames == {<<>>, <<" ">>, <<"A", "l">>, <<" ", "A", "l">>}
LastNames == {<<>>, <<" ">>, <<"B", "o">>}

Field(name, values) == {Empty} \cup {name :> v : v \in values}

\* Object.fromEntries(formData) of a POST to /login
LoginForms ==
    {e @@ p : e \in Field("email", Emails), p \in Field("password", Passwords)}

\* Object.fromEntries(formData) of a POST to /register
RegisterForms ==
    {e @@ p @@ f @@ l :
        e \in Field("email", Emails), p \in Field("password", Passwords),
        f \in Field("firstName", FirstNames), l \in Field("lastName", LastNames)}


----------------------------------------------------------------------------
(* The handlers' decisions.  A decision that may go on to a backend call is *)
(* a step [pc, result]: the call awaited next, or "done" with the result.   *)

Done(r) == [pc |-> "done", result |-> r]
Await(op) == [pc |-> op, result |-> NoResult]

InvalidFormData == Data([error |-> "Invalid form data"])

\* as LoginLoaderReturn, rendering the form whoever asks
LoginLoaderReturn_NoGuard(u) == Data([user |-> Null, error |-> Null])

\* as LoginLoaderReturn, trusting a user some other request has resolved
LoginLoaderReturn_CachedUser(u) ==
    IF Truthy(u) \/ other.user \in Users THEN Redirect("/", <<>>)
    ELSE Data([user |-> Null, error |-> Null])

\* login.tsx loader: if (user) redirect("/") else { user: null, error: null }
LoginLoaderReturn(u) ==
    IF Truthy(u) THEN Redirect("/", <<>>)
    ELSE Data([user |-> Null, error |-> Null])

\* register.tsx loader: if (user) redirect("/") else { user: null, error: null }
RegisterLoaderReturn(u) ==
    IF Truthy(u) THEN Redirect("/", <<>>)
    ELSE Data([user |-> Null, error |-> Null])

\* as HomeLoaderOnUser, with the guard after the listing fetch
HomeLoaderOnUser_FetchFirst(u) == Await("listUsers")

\* home.tsx loader: if (!user) redirect("/login"), else fetch the listing
HomeLoaderOnUser(u) ==
    IF ~Truthy(u) THEN Done(Redirect("/login", <<>>)) ELSE Await("listUsers")

\* home.tsx loader: { user, allUsers: users || [], error: null }
HomeLoaderReturn(u, users) ==
    Data([user |-> u, allUsers |-> users, error |-> Null])

\* login.tsx action: if (!result.success) return { error: "Invalid form data" }
LoginOnParse(r) == IF ~r.success THEN Done(InvalidFormData) ELSE Await("loginUser")

\* as LoginActionReturn, with the two tests in the other order
LoginActionReturn_UserFirst(resp) ==
    IF Truthy(UserOf(resp)) THEN Redirect("/", <<SessionCookie(resp)>>)
    ELSE IF Has(resp, "errors")
    THEN Data([error |-> FirstMessage(resp.errors)])
    ELSE ReturnsUndefined

\* login.tsx action: the if / else if on loginResp
LoginActionReturn(resp) ==
    IF Has(resp, "errors") THEN Data([error |-> FirstMessage(resp.errors)])
    ELSE IF Truthy(UserOf(resp)) THEN Redirect("/", <<SessionCookie(resp)>>)
    ELSE ReturnsUndefined

\* as LoginActionCatch, hiding every exception behind the generic message
LoginActionCatch_AlwaysGeneric(error) ==
    Data([error |-> "An unknown error occurred"])

\* login.tsx action: the catch block
LoginActionCatch(error) ==
    IF error.isError THEN Data([error |-> error.message])
    ELSE Data([error |-> "An unknown error occurred"])

\* register.tsx action: the catch block
RegisterActionCatch(error) ==
    IF error.isError THEN Data([error |-> error.message])
    ELSE Data([error |-> "An unknown error occurred"])

\* register.tsx action: if (!parsed.success) return { error: "Invalid form data" }
RegisterOnParse(r) ==
    IF ~r.success THEN Done(InvalidFormData) ELSE Await("createUser")

\* as RegisterOnCreate, logging in whatever createUser answered
RegisterOnCreate_NoStop(resp) == Await("loginUser")

\* register.tsx action: if (registerResp?.errors) throw Error(...), else log in
RegisterOnCreate(resp) ==
    IF Has(resp, "errors")
    THEN Done(RegisterActionCatch(Error(FirstMessage(resp.errors))))
    ELSE Await("loginUser")

\* as RegisterActionReturn, reporting the registration instead of the login
RegisterActionReturn_ReportsCreated(resp) ==
    IF Has(resp, "errors") THEN Data([error |-> "User created"])
    ELSE IF Truthy(UserOf(resp)) THEN Redirect("/", <<SessionCookie(resp)>>)
    ELSE ReturnsUndefined

\* register.tsx action: the if / else if on loginResp
RegisterActionReturn(resp) ==
    IF Has(resp, "errors")
    THEN RegisterActionCatch(Error(FirstMessage(resp.errors)))
    ELSE IF Truthy(UserOf(resp)) THEN Redirect("/", <<SessionCookie(resp)>>)
    ELSE ReturnsUndefined

\* as HomeActionReturn, redirecting without the Set-Cookie header
HomeActionReturn_KeepsCookie(resp) ==
    IF Has(resp, "errors") THEN Data([error |-> FirstMessage(resp.errors)])
    ELSE Redirect("/login", <<>>)

\* as HomeActionReturn, clearing the cookie whatever the backend answered
HomeActionReturn_IgnoresErrors(resp) == Redirect("/login", <<ClearCookie>>)

\* home.tsx action: the if / else on logoutResp
HomeActionReturn(resp) ==
    IF Has(resp, "errors") THEN Data([error |-> FirstMessage(resp.errors)])
    ELSE Redirect("/login", <<ClearCookie>>)

----------------------------------------------------------------------------
(* The state machine *)

\* everything a browser may send and the backend may answer
AllInputs ==
    [cookies |-> CookieHeaders,
     resolve |-> [h \in ForwardedHeaders |-> Resolvable(h)],
     check |-> {Empty} \cup {[user |-> u] : u \in {Null} \cup Users},
     failures |-> TransportFailures,
     loginForms |-> LoginForms,
     registerForms |-> RegisterForms,
     login |-> LoginBodies,
     create |-> CreateBodies,
     logout |-> LogoutBodies,
     list |-> ListBodies]

\* the locals of one request: no request in hand
IdleContext ==
    [pc |-> "idle", handler |-> "none",
     request |-> [cookie |-> NoCookieHeader, form |-> Empty],
     backendUser |-> Null, parsed |-> Empty, user |-> Unset,
     registerResp |-> NoResp, loginResp |-> NoResp, logoutResp |-> NoResp,
     calls |-> <<>>, result |-> NoResult]

\* the locals of the request the process is running
Current ==
    [pc |-> pc, handler |-> handler, request |-> request,
     backendUser |-> backendUser, parsed |-> parsed, user |-> user,
     registerResp |-> registerResp, loginResp |-> loginResp,
     logoutResp |-> logoutResp, calls |-> calls, result |-> result]

Init ==
    /\ pc = "idle"
    /\ handler = "none"
    /\ request = [cookie |-> NoCookieHeader, form |-> Empty]
    /\ backendUser = Null
    /\ parsed = Empty
    /\ user = Unset
    /\ registerResp = NoResp
    /\ loginResp = NoResp
    /\ logoutResp = NoResp
    /\ calls = <<>>
    /\ result = NoResult
    /\ jar = <<>>
    /\ issued = Null
    /\ other = IdleContext
    /\ session = "none"

\* a request arrives and the framework calls handler h with it
Begin(h, cookie, form, resolved) ==
    /\ handler' = h
    /\ request' = [cookie |-> cookie, form |-> form]
    /\ backendUser' = resolved
    /\ user' = Unset
    /\ registerResp' = NoResp
    /\ loginResp' = NoResp
    /\ logoutResp' = NoResp
    /\ UNCHANGED <<jar, issued, other, session>>

Awaiting(h, op) == handler = h /\ pc = op

\* GET /login: const user = await checkUser(request)
LoginLoader(inputs) ==
    /\ pc = "idle"
    /\ \E c \in Inbound(inputs.cookies) :
      \E b \in Resolved(inputs, checkUser([cookie |-> c, form |-> Empty])) :
        /\ Begin("login.loader", c, Empty, b)
        /\ parsed' = Empty
        /\ calls' = <<checkUser(request')>>
        /\ pc' = "checkUser"
        /\ result' = NoResult

LoginLoaderResume(inputs) ==
    /\ Awaiting("login.loader", "checkUser")
    /\ \E o \in Outcomes(inputs, CheckBodies(backendUser) \cap inputs.check) :
          /\ user' = IF o.kind = "throw" THEN user ELSE UserOf(o.body)
          /\ result' = IF o.kind = "throw" THEN Throws(o.error)
                       ELSE LoginLoaderReturn(user')
    /\ pc' = "done"
    /\ UNCHANGED <<jar, issued, other, session>>
    /\ UNCHANGED <<handler, request, backendUser, parsed, registerResp,
                   loginResp, logoutResp, calls>>

\* GET /register: const user = await checkUser(request)
RegisterLoader(inputs) ==
    /\ pc = "idle"
    /\ \E c \in Inbound(inputs.cookies) :
      \E b \in Resolved(inputs, checkUser([cookie |-> c, form |-> Empty])) :
        /\ Begin("register.loader", c, Empty, b)
        /\ parsed' = Empty
        /\ calls' = <<checkUser(request')>>
        /\ pc' = "checkUser"
        /\ result' = NoResult

RegisterLoaderResume(inputs) ==
    /\ Awaiting("register.loader", "checkUser")
    /\ \E o \in Outcomes(inputs, CheckBodies(backendUser) \cap inputs.check) :
          /\ user' = IF o.kind = "throw" THEN user ELSE UserOf(o.body)
          /\ result' = IF o.kind = "throw" THEN Throws(o.error)
                       ELSE RegisterLoaderReturn(user')
    /\ pc' = "done"
    /\ UNCHANGED <<jar, issued, other, session>>
    /\ UNCHANGED <<handler, request, backendUser, parsed, registerResp,
                   loginResp, logoutResp, calls>>

\* GET /: const user = await checkUser(request)
HomeLoader(inputs) ==
    /\ pc = "idle"
    /\ \E c \in Inbound(inputs.cookies) :
      \E b \in Resolved(inputs, checkUser([cookie |-> c, form |-> Empty])) :
        /\ Begin("home.loader", c, Empty, b)
        /\ parsed' = Empty
        /\ calls' = <<checkUser(request')>>
        /\ pc' = "checkUser"
        /\ result' = NoResult

\* GET /: the guard, then await fetch(`${API_URL}/api/users`)
HomeLoaderResumeUser(inputs) ==
    /\ Awaiting("home.loader", "checkUser")
    /\ \E o \in Outcomes(inputs, CheckBodies(backendUser) \cap inputs.check) :
          IF o.kind = "throw"
          THEN /\ user' = user
               /\ result' = Throws(o.error)
               /\ pc' = "done"
               /\ calls' = calls
          ELSE LET step == HomeLoaderOnUser(UserOf(o.body))
               IN  /\ user' = UserOf(o.body)
                   /\ result' = step.result
                   /\ pc' = step.pc
                   /\ calls' = IF step.pc = "listUsers"
                               THEN Append(calls, listUsers(request))
                               ELSE calls
    /\ UNCHANGED <<jar, issued, other, session>>
    /\ UNCHANGED <<handler, request, backendUser, parsed, registerResp,
                   loginResp, logoutResp>>

\* GET /: const users = await usersResp.json(); return { user, allUsers, error }
HomeLoaderResumeUsers(inputs) ==
    /\ Awaiting("home.loader", "listUsers")
    /\ \E o \in Outcomes(inputs, inputs.list) :
          result' = IF o.kind = "throw" THEN Throws(o.error)
                    ELSE HomeLoaderReturn(user, o.body)
    /\ pc' = "done"
    /\ UNCHANGED <<jar, issued, other, session>>
    /\ UNCHANGED <<handler, request, backendUser, parsed, user, registerResp,
                   loginResp, logoutResp, calls>>

\* POST /login: formData, LoginSchema.safeParse, await loginUser(...)
LoginAction(inputs) ==
    /\ pc = "idle"
    /\ \E c \in Inbound(inputs.cookies) :
      \E b \in Resolved(inputs, listUsers([cookie |-> c, form |-> Empty])) :
      \E form \in inputs.loginForms :
        LET r == LoginSchema(form)
            step == LoginOnParse(r)
        IN  /\ Begin("login.action", c, form, b)
            /\ parsed' = r.data
            /\ pc' = step.pc
            /\ result' = step.result
            /\ calls' = IF step.pc = "loginUser"
                        THEN <<loginUser(request', r.data)>>
                        ELSE <<>>

\* POST /login: loginResp arrives, or the await throws into the catch block
LoginActionResume(inputs) ==
    /\ Awaiting("login.action", "loginUser")
    /\ \E o \in Outcomes(inputs, inputs.login) :
          /\ loginResp' = o
          /\ result' = IF o.kind = "throw" THEN LoginActionCatch(o.error)
                       ELSE LoginActionReturn(o.body)
    /\ pc' = "done"
    /\ UNCHANGED <<jar, issued, other, session>>
    /\ UNCHANGED <<handler, request, backendUser, parsed, user, registerResp,
                   logoutResp, calls>>

\* POST /register: formData, RegisterSchema.safeParse, await createUser(...)
RegisterAction(inputs) ==
    /\ pc = "idle"
    /\ \E c \in Inbound(inputs.cookies) :
      \E b \in Resolved(inputs, listUsers([cookie |-> c, form |-> Empty])) :
      \E form \in inputs.registerForms :
        LET r == RegisterSchema(form)
            step == RegisterOnParse(r)
        IN  /\ Begin("register.action", c, form, b)
            /\ parsed' = r.data
            /\ pc' = step.pc
            /\ result' = step.result
            /\ calls' = IF step.pc = "createUser"
                        THEN <<createUser(r.data.email, r.data.password,
                                          r.data.firstName, r.data.lastName)>>
                        ELSE <<>>

\* POST /register: registerResp arrives; throw on errors, else await loginUser
RegisterActionResumeCreate(inputs) ==
    /\ Awaiting("register.action", "createUser")
    /\ \E o \in Outcomes(inputs, inputs.create) :
          LET step == IF o.kind = "throw"
                      THEN Done(RegisterActionCatch(o.error))
                      ELSE RegisterOnCreate(o.body)
          IN  /\ registerResp' = o
              /\ pc' = step.pc
              /\ result' = step.result
              /\ calls' = IF step.pc = "loginUser"
                          THEN Append(calls, loginUser(request, parsed))
                          ELSE calls
    /\ UNCHANGED <<jar, issued, other, session>>
    /\ UNCHANGED <<handler, request, backendUser, parsed, user, loginResp,
                   logoutResp>>

\* POST /register: loginResp arrives, or the await throws into the catch block
RegisterActionResumeLogin(inputs) ==
    /\ Awaiting("register.action", "loginUser")
    /\ \E o \in Outcomes(inputs, inputs.login) :
          /\ loginResp' = o
          /\ result' = IF o.kind = "throw" THEN RegisterActionCatch(o.error)
                       ELSE RegisterActionReturn(o.body)
    /\ pc' = "done"
    /\ UNCHANGED <<jar, issued, other, session>>
    /\ UNCHANGED <<handler, request, backendUser, parsed, user, registerResp,
                   logoutResp, calls>>

\* POST /: const logoutResp = await logoutUser(request)
HomeAction(inputs) ==
    /\ pc = "idle"
    /\ \E c \in Inbound(inputs.cookies) :
      \E b \in Resolved(inputs, logoutUser([cookie |-> c, form |-> Empty])) :
        /\ Begin("home.action", c, Empty, b)
        /\ parsed' = Empty
        /\ calls' = <<logoutUser(request')>>
        /\ pc' = "logoutUser"
        /\ result' = NoResult

\* POST /: logoutResp arrives, or the await throws out of the action
HomeActionResume(inputs) ==
    /\ Awaiting("home.action", "logoutUser")
    /\ \E o \in Outcomes(inputs, inputs.logout) :
          /\ logoutResp' = o
          /\ result' = IF o.kind = "throw" THEN Throws(o.error)
                       ELSE HomeActionReturn(o.body)
    /\ pc' = "done"
    /\ UNCHANGED <<jar, issued, other, session>>
    /\ UNCHANGED <<handler, request, backendUser, parsed, user, registerResp,
                   loginResp, calls>>

\* the framework sends the handler's result; the next request starts afresh
Respond ==
    /\ pc = "done"
    /\ pc' = "idle"
    /\ handler' = "none"
    /\ request' = [cookie |-> NoCookieHeader, form |-> Empty]
    /\ backendUser' = Null
    /\ parsed' = Empty
    /\ user' = Unset
    /\ registerResp' = NoResp
    /\ loginResp' = NoResp
    /\ logoutResp' = NoResp
    /\ calls' = <<>>
    /\ result' = NoResult
    /\ jar' = IF result.setCookie = <<>> THEN jar
              ELSE StoreCookie(jar, result.setCookie[1])
    /\ issued' = IF result.setCookie = <<>> THEN issued
                 ELSE IF jar' # <<>> /\ Has(loginResp.body, "token")
                 THEN loginResp.body.token
                 ELSE Null
    /\ other' = other
    /\ session' = IF result.setCookie # <<>> /\ issued' \in Tokens
                  THEN "open"
                  ELSE IF /\ session = "open"
                          /\ logoutResp.kind = "json"
                          /\ ~Has(logoutResp.body, "errors")
                  THEN "closed"
                  ELSE IF result.setCookie # <<>> THEN "none"
                  ELSE session

Next ==
    \/ LoginLoader(AllInputs)
    \/ LoginLoaderResume(AllInputs)
    \/ RegisterLoader(AllInputs)
    \/ RegisterLoaderResume(AllInputs)
    \/ HomeLoader(AllInputs)
    \/ HomeLoaderResumeUser(AllInputs)
    \/ HomeLoaderResumeUsers(AllInputs)
    \/ LoginAction(AllInputs)
    \/ LoginActionResume(AllInputs)
    \/ RegisterAction(AllInputs)
    \/ RegisterActionResumeCreate(AllInputs)
    \/ RegisterActionResumeLogin(AllInputs)
    \/ HomeAction(AllInputs)
    \/ HomeActionResume(AllInputs)
    \/ Respond

Spec == Init /\ [][Next]_vars

----------------------------------------------------------------------------
(* Two requests in flight.  A handler runs from one await to the next       *)
(* without interruption; at an await the process may turn to the other      *)
(* request.  A handler's state is its locals: the modules hold no binding   *)
(* that a request writes.                                                   *)

\* the process leaves the request in hand where it stands and turns to the
\* other one
Switch ==
    /\ other # Current
    /\ other' = Current
    /\ pc' = other.pc
    /\ handler' = other.handler
    /\ request' = other.request
    /\ backendUser' = other.backendUser
    /\ parsed' = other.parsed
    /\ user' = other.user
    /\ registerResp' = other.registerResp
    /\ loginResp' = other.loginResp
    /\ logoutResp' = other.logoutResp
    /\ calls' = other.calls
    /\ result' = other.result
    /\ UNCHANGED <<jar, issued, session>>

\* the inputs drawn while two requests are in flight: a share of the forms
\* and backend answers of AllInputs that takes every branch of every handler
\* and keeps two cookies and two tokens apart
ConcurrentShare ==
    [cookies |-> CookieHeaders,
     resolve |-> [h \in ForwardedHeaders |-> Resolvable(h)],
     check |-> {Empty} \cup {[user |-> u] : u \in {Null} \cup Users},
     failures |-> {Failed("fetch failed")},
     loginForms |->
         {[email |-> <<"a", "@", "b", ".", "c", "c">>, password |-> p] :
             p \in {<<"1", "2", "3", "4", "5">>,
                    <<"1", "2", "3", "4", "5", "6">>}},
     registerForms |->
         {[email |-> <<"a", "@", "b", ".", "c", "c">>,
           password |-> <<"1", "2", "3", "4", "5", "6">>,
           firstName |-> <<"A", "l">>, lastName |-> l] :
             l \in {<<>>, <<"B", "o">>}},
     login |->
         {Empty, [user |-> "u1"],
          [errors |->
              <<[message |-> "The email or password provided is incorrect."]>>]}
             \cup {[user |-> "u1", token |-> t, expires |-> x] :
                      t \in Tokens, x \in {MaxExpiry * (MsPerSecond \div 2)}},
     create |->
         {[doc |-> "u1"],
          [errors |->
              <<[message |->
                  "A user with the given email is already registered."]>>]},
     logout |->
         {[message |-> "Logged out."],
          [errors |->
              <<[message |-> "The email or password provided is incorrect."]>>]},
     list |-> {[docs |-> <<"u1">>]}]

NextConcurrent ==
    \/ LoginLoader(ConcurrentShare)
    \/ LoginLoaderResume(ConcurrentShare)
    \/ RegisterLoader(ConcurrentShare)
    \/ RegisterLoaderResume(ConcurrentShare)
    \/ HomeLoader(ConcurrentShare)
    \/ HomeLoaderResumeUser(ConcurrentShare)
    \/ HomeLoaderResumeUsers(ConcurrentShare)
    \/ LoginAction(ConcurrentShare)
    \/ LoginActionResume(ConcurrentShare)
    \/ RegisterAction(ConcurrentShare)
    \/ RegisterActionResumeCreate(ConcurrentShare)
    \/ RegisterActionResumeLogin(ConcurrentShare)
    \/ HomeAction(ConcurrentShare)
    \/ HomeActionResume(ConcurrentShare)
    \/ Respond
    \/ Switch

SpecConcurrent == Init /\ [][NextConcurrent]_vars

----------------------------------------------------------------------------

(* A backend that keeps its sessions.  It answers every call; a login it   *)
(* accepts comes with a user, a token and the token's expiry; it resolves  *)
(* a call to a user exactly when the call carries the token of the session *)
(* the browser opened, until it has accepted a logout.                      *)

\* the answer carries one error
Refusals == {[errors |-> <<[message |-> m]>>] : m \in Messages}

SessionInputs ==
    [cookies |-> CookieHeaders,
     resolve |->
         [h \in ForwardedHeaders |->
             IF /\ session = "open"
                /\ h.pairs = <<[name |-> CookieName, value |-> issued]>>
             THEN Users
             ELSE {Null}],
     check |-> {[user |-> u] : u \in {Null} \cup Users},
     failures |-> {},
     loginForms |-> LoginForms,
     registerForms |-> RegisterForms,
     login |->
         Refusals
             \cup {[user |-> u, token |-> t, expires |-> x] :
                      u \in Users, t \in Tokens, x \in ExpiresInstants},
     create |-> Refusals \cup {[doc |-> u] : u \in Users},
     logout |-> Refusals \cup {[message |-> "Logged out."]},
     list |-> {[docs |-> <<>>]} \cup {[docs |-> <<u>>] : u \in Users}]

NextSession ==
    \/ LoginLoader(SessionInputs)
    \/ LoginLoaderResume(SessionInputs)
    \/ RegisterLoader(SessionInputs)
    \/ RegisterLoaderResume(SessionInputs)
    \/ HomeLoader(SessionInputs)
    \/ HomeLoaderResumeUser(SessionInputs)
    \/ HomeLoaderResumeUsers(SessionInputs)
    \/ LoginAction(SessionInputs)
    \/ LoginActionResume(SessionInputs)
    \/ RegisterAction(SessionInputs)
    \/ RegisterActionResumeCreate(SessionInputs)
    \/ RegisterActionResumeLogin(SessionInputs)
    \/ HomeAction(SessionInputs)
    \/ HomeActionResume(SessionInputs)
    \/ Respond

SpecSession == Init /\ [][NextSession]_vars

----------------------------------------------------------------------------

(* Properties *)

Finished(h) == handler = h /\ pc = "done"

\* the backend answered with a JSON body, and the body is `resp.body`
Answered(resp) == resp.kind = "json"

\* a startSession answer that accepts the credentials
Accepts(resp) ==
    /\ Answered(resp)
    /\ ~Has(resp.body, "errors")
    /\ Has(resp.body, "user") /\ resp.body.user \in Users
    /\ Has(resp.body, "token")
    /\ Has(resp.body, "expires")

\* an answer that carries an errors payload
Rejects(resp) == Answered(resp) /\ Has(resp.body, "errors")

SetsNoCookie == result.setCookie = <<>>

\* the one Set-Cookie directive of the result names the session cookie, holds
\* `token`, and expires in the second the instant `ms` falls in
SetsSessionCookie(token, ms) ==
    /\ Len(result.setCookie) = 1
    /\ result.setCookie[1].name = "payload-token"
    /\ result.setCookie[1].path = "/"
    /\ result.setCookie[1].value = token
    /\ result.setCookie[1].expires.valid
    /\ result.setCookie[1].expires.sec * 1000 <= ms
    /\ ms < (result.setCookie[1].expires.sec + 1) * 1000

InlineError(message) ==
    /\ result.kind = "data"
    /\ result.data = [error |-> message]

\* C1: a login whose form passes validation and whose credentials the backend
\* accepts (user, token and expires, no errors) ends in a redirect to "/"
\* that sets the session cookie to the backend's token, expiring at the
\* backend's expiry (to the second, the resolution of a cookie date).
C1_AcceptedLoginSetsCookieAndRedirects ==
    (Finished("login.action") /\ Accepts(loginResp)) =>
        /\ result.kind = "redirect"
        /\ result.location = "/"
        /\ SetsSessionCookie(loginResp.body.token, loginResp.body.expires)

C1_Witness ==
    /\ Finished("login.action")
    /\ Accepts(loginResp)
    /\ loginResp.body.expires = 1500
    /\ result.kind = "redirect"

\* C2: a login the backend rejects (an errors payload) sets no cookie, does
\* not redirect, and returns the backend's first error message inline.
C2_RejectedLoginReturnsBackendMessage ==
    (Finished("login.action") /\ Rejects(loginResp)) =>
        /\ SetsNoCookie
        /\ result.kind = "data"
        /\ loginResp.body.errors # <<>> =>
              InlineError(loginResp.body.errors[1].message)

C2_Witness ==
    /\ Finished("login.action")
    /\ Rejects(loginResp)
    /\ Len(loginResp.body.errors) = 2
    /\ loginResp.body.errors[1] # loginResp.body.errors[2]
    /\ Has(loginResp.body, "user") /\ loginResp.body.user \in Users
    /\ InlineError(loginResp.body.errors[1].message)

\* the result carries the cookie-clearing directive:
\* "payload-token=; path=/; expires=Thu, 01 Jan 1970 00:00:00 GMT"
ClearsSessionCookie ==
    /\ Len(result.setCookie) = 1
    /\ result.setCookie[1].name = "payload-token"
    /\ result.setCookie[1].path = "/"
    /\ result.setCookie[1].value = ""
    /\ result.setCookie[1].expires = [valid |-> TRUE, sec |-> 0]

\* C3, as claimed: every logout the backend answers, with success or with an
\* errors payload, carries the cookie-clearing directive.
C3_LogoutAlwaysClearsCookie ==
    (Finished("home.action") /\ Answered(logoutResp)) => ClearsSessionCookie

\* C3, amended: a logout clears the session cookie (empty value, expiry at
\* the epoch) and redirects to /login exactly when the backend's answer
\* carries no errors payload; when it carries one, the action returns the
\* inline error and no Set-Cookie directive.
C3_LogoutClearsCookieUnlessRejected ==
    (Finished("home.action") /\ Answered(logoutResp)) =>
        IF Rejects(logoutResp)
        THEN /\ SetsNoCookie
             /\ result.kind = "data"
        ELSE /\ ClearsSessionCookie
             /\ result.kind = "redirect"
             /\ result.location = "/login"

C3_Witness ==
    /\ Finished("home.action")
    /\ Answered(logoutResp)
    /\ ~Rejects(logoutResp)
    /\ ClearsSessionCookie

\* an address has one "@" with text on both sides and no whitespace
AddressShape(s) ==
    /\ Cardinality({i \in 1..Len(s) : s[i] = "@"}) = 1
    /\ s[1] # "@"
    /\ s[Len(s)] # "@"
    /\ \A i \in 1..Len(s) : s[i] # " "

BadCredentials(form) ==
    \/ Has(form, "password") /\ Len(form.password) < 6
    \/ Has(form, "email") /\ ~AddressShape(form.email)

\* C4: a login or registration submission whose password is shorter than 6
\* characters or whose email is no address returns exactly
\* { error: "Invalid form data" }, calls the backend not at all and sets no
\* cookie.
C4_BadCredentialsRejectedBeforeBackend ==
    (handler \in {"login.action", "register.action"}
        /\ BadCredentials(request.form)) =>
            /\ pc = "done"
            /\ InlineError("Invalid form data")
            /\ calls = <<>>
            /\ SetsNoCookie

C4_Witness ==
    /\ handler = "register.action"
    /\ Has(request.form, "password") /\ Len(request.form.password) = 5
    /\ Has(request.form, "email") /\ IsEmail(request.form.email)
    /\ Has(request.form, "firstName") /\ Len(request.form.firstName) > 1
    /\ Has(request.form, "lastName") /\ Len(request.form.lastName) > 1
    /\ InlineError("Invalid form data")

\* C5: a load of /login or /register in which checkUser returns a user ends
\* in a redirect to "/", never in the form; one in which it returns no user
\* renders the form, { user: null, error: null }.
C5_AuthPagesRedirectAuthenticated ==
    ((Finished("login.loader") \/ Finished("register.loader"))
        /\ user # Unset) =>
            IF user \in Users
            THEN /\ result.kind = "redirect"
                 /\ result.location = "/"
                 /\ result.data = Empty
            ELSE /\ result.kind = "data"
                 /\ result.data = [user |-> Null, error |-> Null]

C5_Witness ==
    /\ Finished("register.loader")
    /\ user \in Users
    /\ result.kind = "redirect"

\* C6: a load of home in which checkUser returns no user ends in a redirect
\* to /login without the listing request; the listing request is issued only
\* after checkUser has returned a user in that load.
C6_HomeLoaderGuardsListing ==
    handler = "home.loader" =>
        /\ (pc = "done" /\ user \notin Users \cup {Unset}) =>
              /\ result.kind = "redirect"
              /\ result.location = "/login"
              /\ "listUsers" \notin Ops(calls)
        /\ \A i \in 1..Len(calls) :
              calls[i].op = "listUsers" =>
                  /\ i > 1
                  /\ calls[1].op = "checkUser"
                  /\ user \in Users

C6_Witness ==
    /\ Finished("home.loader")
    /\ user \notin Users \cup {Unset}
    /\ backendUser = Null
    /\ request.cookie.present
    /\ result.kind = "redirect"

\* C7: in a registration whose createUser answer carries no errors payload
\* and whose following loginUser call, sent with the same email and password,
\* is answered with an errors payload, the result is the login failure
\* message inline, with no cookie set and no redirect.
C7_LoginFailureAfterRegistrationSurfaces ==
    (Finished("register.action")
        /\ Answered(registerResp) /\ ~Rejects(registerResp)
        /\ Rejects(loginResp)) =>
            /\ Len(calls) = 2
            /\ calls[1].op = "createUser"
            /\ calls[2].op = "loginUser"
            /\ calls[2].body.email = calls[1].body.email
            /\ calls[2].body.password = calls[1].body.password
            /\ SetsNoCookie
            /\ result.kind = "data"
            /\ loginResp.body.errors # <<>> =>
                  InlineError(loginResp.body.errors[1].message)

C7_Witness ==
    /\ Finished("register.action")
    /\ Answered(registerResp) /\ Has(registerResp.body, "doc")
    /\ Rejects(loginResp)
    /\ Len(loginResp.body.errors) = 2
    /\ loginResp.body.errors[1] # loginResp.body.errors[2]
    /\ InlineError(loginResp.body.errors[1].message)

\* C8: in a registration whose createUser answer carries an errors payload
\* the action stops with that message inline: loginUser is not called, no
\* cookie is set and nothing redirects.  And loginUser is called in a
\* registration only after createUser was answered without an errors payload.
C8_RegistrationFailureStops ==
    handler = "register.action" =>
        /\ Rejects(registerResp) =>
              /\ pc = "done"
              /\ "loginUser" \notin Ops(calls)
              /\ SetsNoCookie
              /\ result.kind = "data"
              /\ registerResp.body.errors # <<>> =>
                    InlineError(registerResp.body.errors[1].message)
        /\ \A i \in 1..Len(calls) :
              calls[i].op = "loginUser" =>
                  /\ i = 2
                  /\ calls[1].op = "createUser"
                  /\ Answered(registerResp)
                  /\ ~Has(registerResp.body, "errors")

C8_Witness ==
    /\ Finished("register.action")
    /\ Rejects(registerResp)
    /\ Has(registerResp.body, "doc")
    /\ registerResp.body.errors # <<>>
    /\ InlineError(registerResp.body.errors[1].message)
    /\ calls # <<>>

\* C9, as claimed: whatever fetch() and resp.json() do, no loader and no
\* action ends by letting the exception out; each still returns.
C9_NoHandlerThrows ==
    pc = "done" => result.kind \in {"data", "redirect", "undefined"}

\* C10, as claimed: a request to the home route for which the backend
\* resolves no user, a load or a logout submission, makes no logout call and
\* no listing fetch, and what it returns is a redirect to /login.
C10_HomeRequestsAreGuarded ==
    (handler \in {"home.loader", "home.action"} /\ backendUser = Null) =>
        /\ "logoutUser" \notin Ops(calls)
        /\ "listUsers" \notin Ops(calls)
        /\ (pc = "done" /\ result.kind # "throw") =>
              /\ result.kind = "redirect"
              /\ result.location = "/login"

\* C11, as claimed: a Set-Cookie directive appears only on a login or a
\* registration the backend accepted, where it names payload-token with
\* path=/ and carries the token and the token's expiry, and on a logout,
\* where it names payload-token with path=/, an empty value and the epoch.
C11_CookieOnlyOnAcceptedLoginAndLogout ==
    result.setCookie # <<>> =>
        \/ /\ handler \in {"login.action", "register.action"}
           /\ result.kind = "redirect"
           /\ Accepts(loginResp)
           /\ SetsSessionCookie(loginResp.body.token, loginResp.body.expires)
        \/ /\ handler = "home.action"
           /\ result.kind = "redirect"
           /\ ClearsSessionCookie

\* a backend call of this request ended in an exception of fetch() or json()
TransportFailed(resp) == resp.kind = "throw"

C14_LoginAnswerIsSuccessOrError ==
    (handler \in {"login.action", "register.action"} /\ pc = "done"
        /\ Answered(loginResp)) =>
            IF Has(loginResp.body, "token") /\ ~Has(loginResp.body, "errors")
            THEN /\ result.kind = "redirect"
                 /\ result.location = "/"
                 /\ Len(result.setCookie) = 1
            ELSE /\ result.kind = "data"
                 /\ Has(result.data, "error")
                 /\ result.data.error \notin {"", Undefined, Null}

\* C15: a logout submission calls logoutUser once, with the request's
\* cookies; while the call is out nothing has been returned; an answer with an
\* errors payload gives its first message inline, any other answer gives the
\* redirect to /login with the cookie-clearing directive.
C15_LogoutFollowsEndSession ==
    handler = "home.action" =>
        /\ Len(calls) = 1
        /\ calls[1].op = "logoutUser"
        /\ pc = "logoutUser" => (result.kind = "none" /\ SetsNoCookie)
        /\ (result.kind = "redirect" \/ ~SetsNoCookie) =>
              (pc = "done" /\ Answered(logoutResp))
        /\ (pc = "done" /\ Rejects(logoutResp)) =>
              /\ result.kind = "data"
              /\ logoutResp.body.errors # <<>> =>
                    InlineError(logoutResp.body.errors[1].message)
        /\ (pc = "done" /\ Answered(logoutResp) /\ ~Rejects(logoutResp)) =>
              /\ result.kind = "redirect"
              /\ result.location = "/login"
              /\ ClearsSessionCookie

C15_Witness ==
    /\ Finished("home.action")
    /\ Rejects(logoutResp)
    /\ Len(logoutResp.body.errors) = 2
    /\ logoutResp.body.errors[1] # logoutResp.body.errors[2]
    /\ InlineError(logoutResp.body.errors[1].message)

\* a name that is empty once its surrounding whitespace is removed
BlankName(form, field) ==
    /\ Has(form, field)
    /\ \A i \in 1..Len(form[field]) : form[field][i] = " "

\* C16, as claimed: a registration whose firstName or lastName is empty after
\* trimming returns the generic validation failure, and createUser is never
\* sent an empty firstName or lastName.
C16_BlankNamesRejected ==
    handler = "register.action" =>
        /\ (BlankName(request.form, "firstName")
               \/ BlankName(request.form, "lastName")) =>
              /\ pc = "done"
              /\ InlineError("Invalid form data")
              /\ calls = <<>>
        /\ \A i \in 1..Len(calls) :
              calls[i].op = "createUser" =>
                  /\ calls[i].body.firstName # <<>>
                  /\ calls[i].body.lastName # <<>>

\* how often the handler has read request.headers.get("Cookie"): once for
\* each backend request it has sent with a Cookie header
CookieReads == Cardinality({i \in 1..Len(calls) : calls[i].cookie.present})

\* C17, as claimed: a request's result carries at most one Set-Cookie
\* directive and its handler reads the inbound Cookie header at most once.
C17_CookieSetAndReadAtMostOnce ==
    /\ Len(result.setCookie) <= 1
    /\ CookieReads <= 1

\* C17, amended: a result carries at most one Set-Cookie directive; the login
\* and register loaders and the logout action read the inbound Cookie header
\* once, the login and register actions never, and the home loader once for
\* the identity check and a second time for the listing fetch, which happens
\* only in a load that resolved a user.
C17_CookieSetOnceReadPerForwardingCall ==
    /\ Len(result.setCookie) <= 1
    /\ handler \in {"login.loader", "register.loader", "home.action"} =>
          CookieReads = 1
    /\ handler \in {"login.action", "register.action"} => CookieReads = 0
    /\ handler = "home.loader" =>
          /\ CookieReads \in {1, 2}
          /\ CookieReads = 2 <=> user \in Users

C17_Witness ==
    /\ Finished("home.loader")
    /\ CookieReads = 2
    /\ result.kind = "data"

BackendOps == {"checkUser", "listUsers", "loginUser", "createUser", "logoutUser"}

\* the call ended in an exception or in an errors payload
CallFailed(resp) == TransportFailed(resp) \/ Rejects(resp)

\* C18: within one request no backend operation is sent twice; the handler
\* waits on the one call it sent last, every earlier call having been
\* answered without failure; and once a call has failed or was answered with
\* an errors payload the request makes no further call.
C18_CallsSequentialAndNeverRetried ==
    /\ \A i, j \in 1..Len(calls) : i # j => calls[i].op # calls[j].op
    /\ pc \in BackendOps => (calls # <<>> /\ calls[Len(calls)].op = pc)
    /\ pc \in {"idle", "done"} \/ pc \in BackendOps
    /\ Len(calls) > 1 =>
          /\ Len(calls) = 2
          /\ \/ /\ handler = "register.action"
                /\ Answered(registerResp) /\ ~Rejects(registerResp)
             \/ handler = "home.loader" /\ user \in Users
    /\ CallFailed(registerResp) => (pc = "done" /\ Len(calls) = 1)
    /\ (CallFailed(loginResp) \/ CallFailed(logoutResp)) => pc = "done"
    /\ result.kind = "throw" => pc = "done"
    /\ (handler = "home.loader" /\ pc = "done" /\ user = Unset) =>
          Len(calls) = 1

C18_Witness ==
    /\ Finished("register.action")
    /\ TransportFailed(registerResp)
    /\ Len(calls) = 1
    /\ result.kind = "data"

\* C19: checkUser, the listing fetch and logoutUser send the cookies of the
\* inbound Cookie header as they came (an empty header when the request has
\* none); loginUser and createUser send no Cookie header whatever the
\* request carried.
C19_CookieForwardedOnlyByIdentityCalls ==
    \A i \in 1..Len(calls) :
        IF calls[i].op \in {"checkUser", "listUsers", "logoutUser"}
        THEN /\ calls[i].cookie.present
             /\ calls[i].cookie.pairs = request.cookie.pairs
        ELSE /\ calls[i].op \in {"loginUser", "createUser"}
             /\ ~calls[i].cookie.present
             /\ calls[i].cookie.pairs = <<>>

C19_Witness ==
    /\ handler = "register.action"
    /\ request.cookie.present
    /\ Len(calls) = 2
    /\ ~calls[1].cookie.present
    /\ ~calls[2].cookie.present


----------------------------------------------------------------------------
(* C12 *)

\* the request in hand carries the cookies the browser holds
PresentsHeldCookie == handler # "none" /\ request.cookie = BrowserCookie(jar)

\* C12: the token the backend issued at a login comes back unchanged: the
\* cookie the browser keeps from the login or register action's directive
\* holds exactly that token, and a later request that presents the cookie has
\* it forwarded by checkUser, logoutUser and the listing fetch as the very
\* pair payload-token=<token>, whatever else the backend answers.
C12_IssuedTokenComesBackUnchanged ==
    issued \in Tokens =>
        /\ jar = <<[name |-> "payload-token", value |-> issued]>>
        /\ PresentsHeldCookie =>
              \A i \in 1..Len(calls) :
                  calls[i].op \in {"checkUser", "logoutUser", "listUsers"} =>
                      /\ calls[i].cookie.present
                      /\ calls[i].cookie.pairs =
                            <<[name |-> "payload-token", value |-> issued]>>

C12_Witness ==
    /\ issued \in Tokens
    /\ PresentsHeldCookie
    /\ Finished("home.loader")
    /\ Len(calls) = 2
    /\ calls[1].op = "checkUser"
    /\ calls[1].cookie.pairs = <<[name |-> "payload-token", value |-> issued]>>


----------------------------------------------------------------------------
(* C20 *)

Loaders == {"login.loader", "register.loader", "home.loader"}

\* request c carries no cookie
Cookieless(c) == ~c.request.cookie.present \/ c.request.cookie.pairs = <<>>

\* the calls of request c carry c's own cookies or none, and a page load
\* starts with an identity check of its own
OwnCalls(c) ==
    /\ \A i \in 1..Len(c.calls) :
          c.calls[i].cookie.pairs \in {<<>>, c.request.cookie.pairs}
    /\ (c.handler \in Loaders /\ c.pc # "idle") =>
          /\ c.calls # <<>>
          /\ c.calls[1].op = "checkUser"
          /\ c.calls[1].cookie.pairs = c.request.cookie.pairs

\* the user a load of request c works with is the one the backend resolved
\* c's own cookie to
OwnIdentity(c) ==
    /\ c.user \in {Unset, Undefined, c.backendUser}
    /\ Cookieless(c) => c.user \notin Users

PlainRedirect(r, location) ==
    r = [kind |-> "redirect", location |-> location, setCookie |-> <<>>,
         data |-> Empty]

PlainData(r, d) ==
    r = [kind |-> "data", location |-> "", setCookie |-> <<>>, data |-> d]

\* the result of a login answered with `resp`: the message, the redirect
\* with a cookie made of the answer's own token and expiry, or nothing
OwnLoginResult(r, resp) ==
    \/ /\ resp.kind = "throw"
       /\ PlainData(r, [error |-> resp.error.message])
    \/ /\ resp.kind = "json" /\ Has(resp.body, "errors")
       /\ r.kind = "data" /\ r.setCookie = <<>>
       /\ resp.body.errors # <<>> =>
             r.data.error = resp.body.errors[1].message
    \/ /\ resp.kind = "json" /\ ~Has(resp.body, "errors")
       /\ Has(resp.body, "user") /\ resp.body.user \in Users
       /\ r.kind = "redirect" /\ r.location = "/"
       /\ Len(r.setCookie) = 1
       /\ r.setCookie[1].name = "payload-token"
       /\ r.setCookie[1].value =
             (IF Has(resp.body, "token") THEN resp.body.token
              ELSE "undefined")
       /\ r.setCookie[1].expires.valid = Has(resp.body, "expires")
       /\ Has(resp.body, "expires") =>
             r.setCookie[1].expires.sec = resp.body.expires \div 1000
    \/ /\ resp.kind = "json" /\ ~Has(resp.body, "errors")
       /\ ~(Has(resp.body, "user") /\ resp.body.user \in Users)
       /\ r.kind = "undefined" /\ r.setCookie = <<>>

\* the result of request c is the one its own cookie, form and answers give
OwnResult(c) ==
    c.pc = "done" =>
        CASE c.handler \in {"login.loader", "register.loader"} ->
                \/ c.user = Unset /\ c.result.kind = "throw"
                \/ c.user \in Users /\ PlainRedirect(c.result, "/")
                \/ /\ c.user \in {Null, Undefined}
                   /\ PlainData(c.result, [user |-> Null, error |-> Null])
          [] c.handler = "home.loader" ->
                \/ c.user = Unset /\ c.result.kind = "throw"
                \/ /\ c.user \in {Null, Undefined}
                   /\ PlainRedirect(c.result, "/login")
                \/ /\ c.user \in Users
                   /\ \/ c.result.kind = "throw"
                      \/ /\ c.result.kind = "data"
                         /\ c.result.setCookie = <<>>
                         /\ c.result.data.user = c.user
                         /\ c.result.data.error = Null
          [] c.handler = "login.action" ->
                IF c.calls = <<>>
                THEN PlainData(c.result, [error |-> "Invalid form data"])
                ELSE OwnLoginResult(c.result, c.loginResp)
          [] c.handler = "register.action" ->
                IF c.calls = <<>>
                THEN PlainData(c.result, [error |-> "Invalid form data"])
                ELSE IF c.registerResp.kind = "throw"
                THEN PlainData(c.result,
                               [error |-> c.registerResp.error.message])
                ELSE IF Has(c.registerResp.body, "errors")
                THEN /\ c.result.kind = "data" /\ c.result.setCookie = <<>>
                     /\ Len(c.calls) = 1
                ELSE OwnLoginResult(c.result, c.loginResp)
          [] c.handler = "home.action" ->
                \/ c.logoutResp.kind = "throw" /\ c.result.kind = "throw"
                \/ /\ c.logoutResp.kind = "json"
                   /\ Has(c.logoutResp.body, "errors")
                   /\ c.result.kind = "data" /\ c.result.setCookie = <<>>
                \/ /\ c.logoutResp.kind = "json"
                   /\ ~Has(c.logoutResp.body, "errors")
                   /\ c.result.kind = "redirect"
                   /\ c.result.location = "/login"
                   /\ Len(c.result.setCookie) = 1
                   /\ c.result.setCookie[1].value = ""
                   /\ c.result.setCookie[1].expires = EpochDate
          [] OTHER -> FALSE

Independent(c) == OwnCalls(c) /\ OwnIdentity(c) /\ OwnResult(c)

\* C20: with two requests in flight and the process turning from one to the
\* other at any await, each request sends its own calls (a page load always
\* its own identity check, with its own cookies), works with the user the
\* backend resolved its own cookie to, and ends in the result that its own
\* cookie, form and backend answers give; nothing of the other request, or of
\* one handled before, enters it.
C20_RequestsHandledIndependently == Independent(Current) /\ Independent(other)

\* two loads of /login end side by side, one for a visitor without a cookie
\* who gets the form, one for a signed-in user who is redirected
C20_Witness ==
    /\ Finished("login.loader")
    /\ Cookieless(Current)
    /\ result.kind = "data"
    /\ other.handler = "login.loader"
    /\ other.pc = "done"
    /\ other.user \in Users
    /\ other.result.kind = "redirect"


----------------------------------------------------------------------------
(* C21 *)

\* C21, as claimed: whenever the login or register action sets the session
\* cookie, the cookie's value is a token the backend's answer carries and its
\* expiry is a valid date, the one of the answer's expires field; a cookie
\* with an absent token or an invalid expiry is never emitted, even for an
\* answer that has a user but no token or no expires.
C21_SessionCookieHasTokenAndValidExpiry ==
    (handler \in {"login.action", "register.action"}
        /\ result.setCookie # <<>>) =>
        /\ Answered(loginResp)
        /\ Has(loginResp.body, "token")
        /\ Has(loginResp.body, "expires")
        /\ SetsSessionCookie(loginResp.body.token, loginResp.body.expires)


----------------------------------------------------------------------------
(* C22 *)

\* C22: against a backend that validates the tokens it issued, once a login
\* or a registration has been accepted and the browser keeps its cookie, a
\* load of / that carries the cookie makes the identity check and the
\* listing fetch and renders the page for the resolved user; once a logout
\* has been accepted after that, the browser holds no cookie, a load of /
\* carrying what the browser then holds is redirected to /login and a load
\* of /login renders the form.
C22_SessionLifecycle ==
    /\ session = "closed" => jar = <<>>
    /\ PresentsHeldCookie =>
        /\ (session = "open" /\ Finished("home.loader")) =>
              /\ user \in Users
              /\ Ops(calls) = {"checkUser", "listUsers"}
              /\ result.kind = "data"
              /\ result.setCookie = <<>>
              /\ result.data.user = user
              /\ result.data.error = Null
        /\ (session = "closed" /\ Finished("home.loader")) =>
              /\ Cookieless(Current)
              /\ PlainRedirect(result, "/login")
        /\ (session = "closed" /\ Finished("login.loader")) =>
              /\ Cookieless(Current)
              /\ PlainData(result, [user |-> Null, error |-> Null])

\* a session was opened and closed, and /login then renders the form
C22_Witness ==
    /\ session = "closed"
    /\ PresentsHeldCookie
    /\ Finished("login.loader")
    /\ result.kind = "data"

====
